---- MODULE Spec2Model ----
(***************************************************************************)
(* NodeWrapper (nipype/pipeline/node_wrapper.py): a node that wraps an     *)
(* interface (the adapter), runs it inside a working directory, and keeps  *)
(* a hash file (_0x<hash>.json) there as the marker of a completed run.    *)
(*                                                                         *)
(* One node is modelled together with its caller.  The caller sets inputs  *)
(* and calls run(); run() is modelled statement block by statement block   *)
(* (pc is the position inside run()/_run_interface), so that the order of  *)
(* cleaning, staging, adapter calls and the writing of the hash file is    *)
(* visible.  While a run is in progress no caller action is enabled: the   *)
(* node is single-threaded and synchronous.                                *)
(*                                                                         *)
(* Modelling scope:                                                        *)
(*  - the output base directory is absolute, so the node's directory does  *)
(*    not depend on the process's current directory;                       *)
(*  - the md5 digest is collision free: a hash value is represented by     *)
(*    the digested content itself;                                         *)
(*  - sequences given as inputs are not empty;                             *)
(*  - in Spec the hash file can always be written and serialized; in      *)
(*    SpecWrite either may fail;                                           *)
(*  - SpecStage is the disk based node with a declared file field, whose   *)
(*    caller also changes overwrite and writes source files anew;          *)
(*  - SpecNew begins at the call of the constructor;                       *)
(*  - SpecIter is the node that iterates over two fields at once.         *)
(***************************************************************************)
EXTENDS Integers, Sequences, FiniteSets, TLC

\* ------------------------------------------------------------------ bounds

\* number of run() calls the caller makes
MaxRuns == 3
\* length of the longest sequence given as an input
MaxIter == 2

\* ------------------------------------------------------------- directories

Home    == [kind |-> "home", idx |-> 0]   \* the caller's current directory
SrcDir  == [kind |-> "src",  idx |-> 0]   \* where the caller's files live
NoLoc   == [kind |-> "none", idx |-> 0]   \* None / not a path

\* _output_directory(): <base_directory>/<name>
output_directory == [kind |-> "work", idx |-> 0]

\* every pass of the loop in the same subdirectory
SubDir_same(i) == [kind |-> "sub", idx |-> 0]

\* os.path.join(basewd, '%s_%d' % (self.iterfield[0], i))
SubDir(i) == [kind |-> "sub", idx |-> i]

InTree(d) == d.kind \in {"work", "sub"}

\* ------------------------------------------------------------------ values

Fields  == {"infile", "frac"}
OutKeys == {"X", "Y"}

\* An item is a plain value (loc = NoLoc) or a file path (directory, name).
Plain(id)   == [loc |-> NoLoc, id |-> id]
File(d, id) == [loc |-> d, id |-> id]

\* An input value: None, a scalar, or a list.
None        == [islist |-> FALSE, items |-> <<>>]
Scalar(it)  == [islist |-> FALSE, items |-> <<it>>]
List(its)   == [islist |-> TRUE,  items |-> its]

IsNone(v)   == ~v.islist /\ v.items = <<>>
IsFileVal(v) == v.items # <<>> /\ v.items[1].loc # NoLoc

\* what a file holds (a plain value stands for itself)
Content(id) == CASE id = "a"  -> "ca"
                 [] id = "b"  -> "cb"
                 [] OTHER     -> id

FracSeq(k) == [j \in 1..k |-> Plain(IF j % 2 = 1 THEN "f1" ELSE "f2")]
FileSeq(k) == [j \in 1..k |-> File(SrcDir, IF j % 2 = 1 THEN "a" ELSE "b")]

InSeq(x, s) == \E j \in 1..Len(s) : s[j] = x

\* the values the caller gives to inputs.frac and inputs.infile: a field that
\* is iterated over holds a scalar or a list, another field a scalar (or, for
\* the files, nothing)
FracVals(iterf) ==
    IF InSeq("frac", iterf)
    THEN {Scalar(Plain("f1")), List(FracSeq(MaxIter))}
    ELSE {Scalar(Plain("f1")), Scalar(Plain("f2"))}
InfileVals(iterf) ==
    IF InSeq("infile", iterf)
    THEN {Scalar(File(SrcDir, "a")), List(FileSeq(MaxIter))}
    ELSE {Scalar(File(SrcDir, "a")), Scalar(File(SrcDir, "b")), None}

SrcFiles == {File(SrcDir, id) : id \in {"a", "b"}}

\* filemanip.filename_to_list
filename_to_list(v) == v.items

\* filemanip.list_to_filename: a list of one element becomes the element
list_to_filename(its) == IF Len(its) > 1 THEN List(its) ELSE Scalar(its[1])

\* filemanip.fname_presuffix(f, newpath=d): the same file name in directory d.
\* A plain value has no path and is left as it is.
fname_presuffix(it, d) == IF it.loc = NoLoc THEN it ELSE File(d, it.id)

\* filemanip.copyfiles(filelist, [dest], copy): the new paths
copyfiles(its, d) == [j \in 1..Len(its) |-> fname_presuffix(its[j], d)]

\* filemanip.copyfiles: the files on disk afterwards.  copy = TRUE leaves the
\* source, copy = FALSE relocates it.
RECURSIVE copyfiles_fs(_, _, _, _)
copyfiles_fs(fs, its, d, copy) ==
    IF its = <<>> THEN fs
    ELSE LET it  == Head(its)
             new == fname_presuffix(it, d)
             fs1 == IF it.loc = NoLoc THEN fs
                    ELSE IF copy THEN fs \cup {new}
                    ELSE (fs \ {it}) \cup {new}
         IN  copyfiles_fs(fs1, Tail(its), d, copy)

\* filemanip.cleandir(outdir): the old contents of the node's directory go
cleandir_fs(fs) == {f \in fs : ~InTree(f.loc)}

\* Bunch._get_bunch_hash: the digest of the inputs.  A file contributes its
\* content, not its path, and a single file digests like a list of one file.
digest(v) == [islist |-> IF IsFileVal(v) THEN TRUE ELSE v.islist,
              items  |-> [j \in 1..Len(v.items) |-> Content(v.items[j].id)]]
get_bunch_hash(inp) == [f \in Fields |-> digest(inp[f])]

\* ----------------------------------------------------------------- adapter

NoOutputs == [k \in OutKeys |-> <<>>]

\* interface.run(): the outputs of a successful call are a function of the
\* inputs it ran with.  Key X is always produced, key Y only for some inputs.
AdapterOut(inp) ==
    [k \in OutKeys |->
        IF k = "Y" /\ inp["frac"].items # <<>> /\ inp["frac"].items[1].id = "f2"
        THEN <<>> ELSE <<get_bunch_hash(inp)>>]

Returncodes == {0, 1}

\* list.insert(i, val), i counted from 0
Insert(s, i, val) ==
    LET k == IF i < Len(s) THEN i ELSE Len(s)
    IN  SubSeq(s, 1, k) \o <<val>> \o SubSeq(s, k + 1, Len(s))

Max(a, b) == IF a > b THEN a ELSE b

\* ------------------------------------------------------------------- state

VARIABLES
    \* the node (NodeWrapper.__init__)
    ctor,           \* the arguments __init__ was called with
    disk_based,     \* self.disk_based
    overwrite,      \* self.overwrite
    iterfield,      \* self.iterfield: sequence of field names
    input_info,     \* self._interface.get_input_info(): <<[key, copy]>> or <<>>
    serializable,   \* json can write every value of the hashed inputs
    inputs,         \* self.inputs: field -> value
    result,         \* self._result
    \* the file system and the process
    markers,        \* hash values h with a file _0x<h>.json in the node's directory
    files,          \* the input files that exist (directory, name)
    products,       \* directory -> the outputs an adapter call left there
    dirs,           \* the directories of the node that exist
    oscwd,          \* os.getcwd()
    writable,       \* whether a hash file can be opened for writing
    \* the run in progress (the locals are reset when run() is left)
    pc,             \* position in run()/_run_interface; "idle" between runs
    updatehash,     \* run()'s argument (kept after the run)
    execute,        \* _run_interface's argument
    hashvalue,      \* run()'s local: the hash of the inputs at line 172 (kept)
    cwd,            \* _run_interface's local cwd
    old_cwd,        \* _run_interface's local old_cwd
    itervals,       \* _run_interface's local: field -> sequence of items
    notlist,        \* _run_interface's local: field -> the value was a scalar
    idx,            \* the loop index i of line 253
    \* what an observer records of the runs (history)
    runs,           \* number of run() calls so far
    calls,          \* adapter run() calls made by the current/last run
    aggs,           \* aggregate_outputs() calls made by the current/last run
    raised,         \* the exception the current/last run raised, or NoError
    endinputs,      \* the inputs as the last run left them
    start,          \* facts recorded about the current/last run
    prev            \* facts about the run before the current/last one

node  == <<ctor, disk_based, overwrite, iterfield, input_info, serializable,
           inputs, result>>
disk  == <<markers, files, products, dirs, oscwd, writable>>
local == <<pc, updatehash, execute, hashvalue, cwd, old_cwd, itervals, notlist, idx>>
hist  == <<runs, calls, aggs, raised, endinputs, start, prev>>
vars  == <<node, disk, local, hist>>

config == <<ctor, disk_based, overwrite, iterfield, input_info, serializable>>

NoError == [type |-> "none", name |-> FALSE, inputs |-> FALSE, stderr |-> FALSE]
\* raise RuntimeError(result.runtime.stderr)
RuntimeError == [type |-> "RuntimeError", name |-> FALSE, inputs |-> FALSE,
                 stderr |-> TRUE]
\* raise StandardError("Could not run <name> with inputs: ... stderr: ...")
StandardError == [type |-> "StandardError", name |-> TRUE, inputs |-> TRUE,
                  stderr |-> TRUE]
\* itervals[field][i] past the end of a shorter field
IndexError == [type |-> "IndexError", name |-> FALSE, inputs |-> FALSE,
               stderr |-> FALSE]
\* raise Exception('Interface must be provided')
Exception == [type |-> "Exception", name |-> FALSE, inputs |-> FALSE,
              stderr |-> FALSE]
\* raise ValueError('Setting base_directory requires a disk based interface')
ValueError == [type |-> "ValueError", name |-> FALSE, inputs |-> FALSE,
               stderr |-> FALSE]
\* open(hashfile, 'wt') / fd.close() at lines 150-152, outside the try
IOError == [type |-> "IOError", name |-> FALSE, inputs |-> FALSE,
            stderr |-> FALSE]
\* self._result.runtime.stderr on a list
AttributeError == [type |-> "AttributeError", name |-> FALSE, inputs |-> FALSE,
                   stderr |-> FALSE]

NoResult == [kind |-> "none", runtime |-> <<>>, outputs |-> NoOutputs]

\* start: marker   - the hash file of the inputs existed when run() began
\*        same     - the inputs were as the run before left them
\*        onefield - exactly one input differed from what the run before left
\*        newhash  - the hash differed from the hash of what the run before left
\*        oscwd    - the current directory when run() began
\*        path     - "exec" (line 178), "skip" (line 208), "direct" (line 228)
\*        failed   - an adapter call of the run returned a nonzero code
\*        updsince - an updatehash run wrote a hash file that was not there,
\*                   and the directory was not cleaned since
\*        updbefore - updsince, as it was when run() began
\*        n        - the number of passes of the loop of line 253
\*        done     - the hashes of the runs that executed and returned normally
\*        back     - the hash of this run was in done when run() began
\*        sameout  - the run returned the outputs the run before it returned
\*        okhere   - the hashes of the runs whose adapter calls all returned
\*                   0, made since the directory was last cleaned
\*        updhere  - the hashes of the runs called with updatehash since the
\*                   directory was last cleaned
\*        inputs   - the inputs when run() began
\*        log      - the adapter calls of the run, in order: the directory
\*                   passed as cwd and the inputs the adapter ran with
NoStart == [marker |-> FALSE, same |-> FALSE, onefield |-> FALSE,
            newhash |-> FALSE, oscwd |-> Home, path |-> "none",
            failed |-> FALSE, updsince |-> FALSE, updbefore |-> FALSE,
            n |-> 0, done |-> {}, back |-> FALSE, sameout |-> FALSE,
            okhere |-> {}, updhere |-> {},
            inputs |-> [f \in Fields |-> None], log |-> <<>>]

\* the record rec with one more adapter call: interface.run(cwd=d) with inp
Logged(rec, d, inp) ==
    [rec EXCEPT !.log = Append(@, [cwd |-> d, inputs |-> inp])]
\* prev:  ok      - the run before executed the adapter and returned normally
\*        outputs - its outputs (held while the current run is in progress)
NoPrev  == [ok |-> FALSE, outputs |-> NoOutputs]

\* __init__(interface, diskbased, base_directory): which arguments are given
\* (interface, base_directory: not None) and the value of diskbased
CtorArgs == [interface : BOOLEAN, diskbased : BOOLEAN, base_directory : BOOLEAN]

\* the call that made a node: an interface, and a base directory for a disk
\* based node
Made(db) == [interface |-> TRUE, diskbased |-> db, base_directory |-> db]

IterOpts == {<<>>, <<"frac">>, <<"infile">>}
InfoOpts == {<<>>, <<[key |-> "infile", copy |-> TRUE]>>,
             <<[key |-> "infile", copy |-> FALSE]>>}

NoIter == [f \in Fields |-> <<>>]
NoFlag == [f \in Fields |-> FALSE]

\* NodeWrapper.__init__ followed by the caller's first inputs
Init ==
    /\ disk_based \in BOOLEAN
    /\ ctor = Made(disk_based)
    /\ overwrite \in (IF disk_based THEN BOOLEAN ELSE {FALSE})
    /\ iterfield \in IterOpts
    /\ input_info \in (IF disk_based THEN InfoOpts ELSE {<<>>})
    /\ serializable = TRUE
    /\ inputs \in [Fields -> FracVals(iterfield) \cup InfileVals(iterfield)]
    /\ inputs["frac"] \in FracVals(iterfield)
    /\ inputs["infile"] \in InfileVals(iterfield)
    /\ result = NoResult
    /\ markers = {}
    /\ files = SrcFiles
    /\ products = <<>>
    /\ dirs = {}
    /\ oscwd = Home
    /\ writable = TRUE
    /\ pc = "idle"
    /\ updatehash = FALSE
    /\ execute = FALSE
    /\ hashvalue = get_bunch_hash(inputs)
    /\ cwd = NoLoc
    /\ old_cwd = Home
    /\ itervals = NoIter
    /\ notlist = NoFlag
    /\ idx = 0
    /\ runs = 0
    /\ calls = 0
    /\ aggs = 0
    /\ raised = NoError
    /\ endinputs = inputs
    /\ start = NoStart
    /\ prev = NoPrev

\* ------------------------------------------------------ the caller's actions

\* node.inputs.<field> = v (or set_input), between runs: the caller changes
\* one input before a run, and names files that exist.
SetInput ==
    /\ pc = "idle"
    /\ runs < MaxRuns
    /\ inputs = endinputs
    /\ \E f \in Fields :
       \E v \in (IF f = "frac" THEN FracVals(iterfield) ELSE InfileVals(iterfield)) :
          /\ v # inputs[f]
          /\ \A j \in 1..Len(v.items) : v.items[j].loc = NoLoc \/ v.items[j] \in files
          /\ inputs' = [inputs EXCEPT ![f] = v]
    /\ UNCHANGED <<config, result>>
    /\ UNCHANGED <<disk, local, hist>>

\* ------------------------------------------------------------------- run()

\* _save_hashfile (lines 141-157), the ways it can end:
\*   "written"  - save_json wrote the file
\*   "logged"   - save_json raised IOError; logged at line 156, no file
\*   "fallback" - save_json raised TypeError; lines 150-152 wrote str(...)
\*   "IOError"  - save_json raised TypeError and the open/write of lines
\*                150-152, which no try encloses, raised IOError
\* When the file cannot be written and a value cannot be serialized,
\* save_json fails on whichever it meets first.
SaveOutcomes(canwrite, canser) ==
    IF canwrite THEN (IF canser THEN {"written"} ELSE {"fallback"})
    ELSE (IF canser THEN {"logged"} ELSE {"logged", "IOError"})

\* the hash files after _save_hashfile ended with out
save_hashfile(ms, h, out) ==
    IF out \in {"written", "fallback"} THEN ms \cup {h} ELSE ms

\* line 177 with the test of the hash file lost: every run executes
MustExecute_always(upd, ovw, exists) == ~upd

\* line 177 with the test of updatehash lost
MustExecute_noupd(upd, ovw, exists) == ovw \/ ~exists

\* line 177 with the test of self.overwrite lost
MustExecute_noovw(upd, ovw, exists) == ~upd /\ ~exists

\* line 177: not updatehash and (self.overwrite or not os.path.exists(hashfile))
MustExecute(upd, ovw, exists) == ~upd /\ (ovw \/ ~exists)

\* line 226 calling _run_interface(execute=True)
SkipExecute_true == TRUE

\* line 226: self._run_interface(execute=False, cwd=outdir)
SkipExecute == FALSE

\* line 174 lost: the hash file is written at the start of every run
SaveFirst_always(upd) == TRUE

\* line 174: if updatehash
SaveFirst(upd) == upd

\* line 228 calling _run_interface(execute=False)
DirectExecute_false == FALSE

\* line 228: self._run_interface(execute=True)
DirectExecute == TRUE

\* run(updatehash), lines 160-177 and 227-229: make the directory, hash the
\* inputs, write the hash file on request, choose between executing and
\* collecting.  An IOError out of _save_hashfile at line 176 ends the run.
Run ==
    /\ pc = "idle"
    /\ runs < MaxRuns
    /\ \E upd \in BOOLEAN :
       \E out \in (IF disk_based /\ SaveFirst(upd)
                   THEN SaveOutcomes(writable, serializable) ELSE {"none"}) :
       LET h   == get_bunch_hash(inputs)
           ms  == save_hashfile(markers, h, out)
           go  == MustExecute(upd, overwrite, h \in ms)
           rec == [marker |-> disk_based /\ h \in markers,
                   same |-> runs > 0 /\ inputs = endinputs,
                   onefield |-> runs > 0 /\
                       Cardinality({f \in Fields : inputs[f] # endinputs[f]}) = 1,
                   newhash |-> runs > 0 /\ h # get_bunch_hash(endinputs),
                   oscwd |-> oscwd,
                   path |-> IF ~disk_based THEN "direct"
                            ELSE IF out = "IOError" THEN "none"
                            ELSE IF go THEN "exec" ELSE "skip",
                   failed |-> FALSE,
                   updsince |-> disk_based /\
                                (start.updsince \/ (ms # markers)),
                   updbefore |-> start.updsince,
                   n |-> 0,
                   done |-> start.done,
                   back |-> h \in start.done,
                   sameout |-> FALSE,
                   okhere |-> start.okhere,
                   updhere |-> IF disk_based /\ upd THEN start.updhere \cup {h}
                               ELSE start.updhere,
                   inputs |-> inputs,
                   log |-> <<>>]
       IN  /\ updatehash' = upd
           /\ start' = rec
           /\ raised' = IF out = "IOError" THEN IOError ELSE NoError
           /\ IF disk_based
              THEN /\ dirs' = dirs \cup {output_directory}
                   /\ hashvalue' = h
                   /\ markers' = ms
                   /\ IF out = "IOError"
                      THEN UNCHANGED <<execute, cwd, pc>>
                      ELSE /\ execute' = IF go THEN TRUE ELSE SkipExecute
                           /\ cwd' = output_directory
                           /\ pc' = IF go THEN "clean" ELSE "restage"
              ELSE /\ execute' = DirectExecute
                   /\ cwd' = NoLoc
                   /\ pc' = "enter"
                   /\ UNCHANGED <<dirs, markers, hashvalue>>
           /\ endinputs' = IF out = "IOError" THEN inputs ELSE endinputs
           /\ prev' = [ok |-> runs > 0 /\ start.path \in {"exec", "direct"} /\
                               raised = NoError,
                       outputs |-> IF out = "IOError" THEN NoOutputs
                                   ELSE result.outputs]
    /\ runs' = runs + 1
    /\ calls' = 0
    /\ aggs' = 0
    /\ UNCHANGED <<node, files, products, oscwd, writable>>
    /\ UNCHANGED <<old_cwd, itervals, notlist, idx>>

\* leaving run(), by return or by an exception err: inp and res are the inputs
\* and the result then, rec the facts recorded about the run
Leave(err, inp, res, rec) ==
    /\ pc' = "idle"
    /\ raised' = err
    /\ endinputs' = inp
    /\ start' = [rec EXCEPT !.sameout = (res.outputs = prev.outputs),
                            !.done = IF err = NoError /\ rec.path = "exec"
                                     THEN @ \cup {hashvalue} ELSE @]
    /\ prev' = [prev EXCEPT !.outputs = NoOutputs]
    /\ execute' = FALSE
    /\ cwd' = NoLoc
    /\ old_cwd' = Home
    /\ itervals' = NoIter
    /\ notlist' = NoFlag
    /\ idx' = 0
    /\ UNCHANGED <<updatehash, hashvalue, runs>>

\* filemanip.cleandir(outdir): the hash files go with the other contents
cleandir_markers(ms) == {}

\* line 180 left out: nothing is cleaned before the execution
CleanDir_skipped ==
    /\ pc = "clean"
    /\ pc' = "stage"
    /\ UNCHANGED <<node, disk, hist>>
    /\ UNCHANGED <<updatehash, execute, hashvalue, cwd, old_cwd, itervals, notlist, idx>>

\* line 180, cleandir(outdir): hash files, staged files and earlier outputs
\* are removed; directories stay
CleanDir ==
    /\ pc = "clean"
    /\ markers' = cleandir_markers(markers)
    /\ files' = cleandir_fs(files)
    /\ products' = <<>>
    /\ start' = [start EXCEPT !.updsince = FALSE, !.okhere = {},
                              !.updhere = {}]
    /\ pc' = "stage"
    /\ UNCHANGED <<node, dirs, oscwd, writable>>
    /\ UNCHANGED <<updatehash, execute, hashvalue, cwd, old_cwd, itervals, notlist, idx>>
    /\ UNCHANGED <<runs, calls, aggs, raised, endinputs, prev>>

\* line 187 with copy=False whatever the info says
StageField_move(st, info) ==
    LET v == st.inp[info.key]
    IN  IF IsNone(v) THEN st
        ELSE LET infiles  == filename_to_list(v)
                 newfiles == copyfiles(infiles, output_directory)
             IN  [inp |-> [st.inp EXCEPT ![info.key] = list_to_filename(newfiles)],
                  fs  |-> copyfiles_fs(st.fs, infiles, output_directory, FALSE)]

\* lines 183-188 for one info of get_input_info(): copy the files of the
\* field into outdir and point the input at the copies
StageField(st, info) ==
    LET v == st.inp[info.key]
    IN  IF IsNone(v) THEN st
        ELSE LET infiles  == filename_to_list(v)
                 newfiles == copyfiles(infiles, output_directory)
             IN  [inp |-> [st.inp EXCEPT ![info.key] = list_to_filename(newfiles)],
                  fs  |-> copyfiles_fs(st.fs, infiles, output_directory, info.copy)]

RECURSIVE StageAll(_, _)
StageAll(st, infos) ==
    IF infos = <<>> THEN st
    ELSE StageAll(StageField(st, Head(infos)), Tail(infos))

\* lines 182-189: stage the declared file fields, then _run_interface
StageInputs ==
    /\ pc = "stage"
    /\ LET st == StageAll([inp |-> inputs, fs |-> files], input_info)
       IN  /\ inputs' = st.inp
           /\ files' = st.fs
    /\ pc' = "enter"
    /\ UNCHANGED <<config, result>>
    /\ UNCHANGED <<markers, products, dirs, oscwd, writable>>
    /\ UNCHANGED <<updatehash, execute, hashvalue, cwd, old_cwd, itervals, notlist, idx>>
    /\ UNCHANGED hist

\* line 220 lost: every file is staged again
RestageFiles_always(fs, its, copy) ==
    copyfiles_fs(fs, its, output_directory, copy)

\* lines 218-225 for the files of one field: copy a file only when no file
\* of its name is in outdir
RECURSIVE RestageFiles(_, _, _)
RestageFiles(fs, its, copy) ==
    IF its = <<>> THEN fs
    ELSE LET f       == Head(its)
             newfile == fname_presuffix(f, output_directory)
             fs1     == IF newfile \in fs THEN fs
                        ELSE copyfiles_fs(fs, <<f>>, output_directory, copy)
         IN  RestageFiles(fs1, Tail(its), copy)

\* lines 211-225 for one info: each file of the field is pointed at its path
\* in outdir
RestageField(st, info) ==
    LET v == st.inp[info.key]
    IN  IF v.items = <<>> THEN st
        ELSE [inp |-> [st.inp EXCEPT ![info.key] =
                          [islist |-> v.islist,
                           items  |-> copyfiles(v.items, output_directory)]],
              fs  |-> RestageFiles(st.fs, v.items, info.copy)]

RECURSIVE RestageAll(_, _)
RestageAll(st, infos) ==
    IF infos = <<>> THEN st
    ELSE RestageAll(RestageField(st, Head(infos)), Tail(infos))

\* lines 208-226: the hash file exists (or updatehash): re-point the inputs
RestageInputs ==
    /\ pc = "restage"
    /\ LET st == RestageAll([inp |-> inputs, fs |-> files], input_info)
       IN  /\ inputs' = st.inp
           /\ files' = st.fs
    /\ pc' = "enter"
    /\ UNCHANGED <<config, result>>
    /\ UNCHANGED <<markers, products, dirs, oscwd, writable>>
    /\ UNCHANGED <<updatehash, execute, hashvalue, cwd, old_cwd, itervals, notlist, idx>>
    /\ UNCHANGED hist

\* ---------------------------------------------------------- _run_interface

\* lines 233-252: remember the current directory, enter the node's
\* directory, and with an iterfield set up the loop
EnterInterface ==
    /\ pc = "enter"
    /\ LET cwd1 == IF cwd # NoLoc THEN cwd
                   ELSE IF disk_based THEN output_directory ELSE NoLoc
       IN  /\ old_cwd' = oscwd
           /\ cwd' = cwd1
           /\ oscwd' = IF cwd1 # NoLoc THEN cwd1 ELSE oscwd
    /\ IF iterfield # <<>>
       THEN /\ itervals' = [f \in Fields |->
                              IF InSeq(f, iterfield) THEN inputs[f].items ELSE <<>>]
            /\ notlist' = [f \in Fields |->
                              InSeq(f, iterfield) /\ ~inputs[f].islist]
            /\ result' = [kind |-> "list", runtime |-> <<>>, outputs |-> NoOutputs]
            /\ idx' = 0
            /\ start' = [start EXCEPT !.n = Len(inputs[iterfield[1]].items)]
            /\ pc' = "iter"
       ELSE /\ pc' = "single"
            /\ UNCHANGED <<itervals, notlist, result, idx, start>>
    /\ UNCHANGED <<config, inputs>>
    /\ UNCHANGED <<markers, files, products, dirs, writable>>
    /\ UNCHANGED <<updatehash, execute, hashvalue>>
    /\ UNCHANGED <<runs, calls, aggs, raised, endinputs, prev>>

\* the loop stopping at the end of the shortest iterfield
RECURSIVE Passes_shortest(_, _)
Passes_shortest(iv, flds) ==
    IF Len(flds) = 1 THEN Len(iv[flds[1]])
    ELSE LET rest == Passes_shortest(iv, Tail(flds))
         IN  IF Len(iv[flds[1]]) < rest THEN Len(iv[flds[1]]) ELSE rest

\* line 253: the loop enumerates the values of the first iterfield
Passes(iv, flds) == Len(iv[flds[1]])

\* lines 261-266 for the fields from flds on: the i-th value of each field is
\* staged into subdir (disk based) and set as the input.  A field with no
\* i-th value raises IndexError; the fields before it are already set.
RECURSIVE IterStage(_, _, _)
IterStage(st, flds, i) ==
    IF flds = <<>> THEN st
    ELSE LET f == Head(flds)
         IN  IF Len(itervals[f]) <= i THEN [st EXCEPT !.err = TRUE]
             ELSE LET it == itervals[f][i + 1]
                      newfile == IF disk_based
                                 THEN list_to_filename(copyfiles(<<it>>, SubDir(i)))
                                 ELSE Scalar(it)
                      fs1 == IF disk_based
                             THEN copyfiles_fs(st.fs, <<it>>, SubDir(i), FALSE)
                             ELSE st.fs
                  IN  IterStage([inp |-> [st.inp EXCEPT ![f] = newfile],
                                 fs |-> fs1, err |-> FALSE], Tail(flds), i)

\* lines 288-298: each key of this iteration's outputs is inserted at i into
\* the list of the result, or starts the list
Accumulate(outs, out, i) ==
    [k \in OutKeys |->
        IF out[k] = <<>> THEN outs[k]
        ELSE IF outs[k] = <<>> THEN <<out[k][1]>>
        ELSE Insert(outs[k], i, out[k][1])]

\* interface.aggregate_outputs(): what an adapter call left in directory d
aggregate_outputs(d) == IF d \in DOMAIN products THEN products[d] ELSE NoOutputs

\* interface.run(cwd=d) leaves its outputs in d
PutProduct(d, out) ==
    IF d = NoLoc THEN products
    ELSE [x \in (DOMAIN products) \cup {d} |-> IF x = d THEN out ELSE products[x]]

\* line 279 without the raise: the loop goes on after a failure
IterAborts_never(rc) == FALSE

\* line 279: a nonzero return code of an iteration raises at once
IterAborts(rc) == rc # 0

\* lines 253-298, one pass of the loop
IterStep ==
    /\ pc = "iter"
    /\ idx < Passes(itervals, iterfield)
    /\ LET i    == idx
           cwd1 == IF disk_based THEN SubDir(i) ELSE cwd
           st   == IterStage([inp |-> inputs, fs |-> files, err |-> FALSE],
                             iterfield, i)
           out  == AdapterOut(st.inp)
       IN  /\ dirs' = IF disk_based THEN dirs \cup {SubDir(i)} ELSE dirs
           /\ oscwd' = IF disk_based THEN SubDir(i) ELSE oscwd
           /\ inputs' = st.inp
           /\ files' = st.fs
           /\ IF st.err
              THEN /\ Leave(IndexError, st.inp, result, start)
                   /\ UNCHANGED <<result, products, calls, aggs>>
              ELSE IF execute
              THEN \E rc \in Returncodes :
                   /\ calls' = calls + 1
                   /\ IF IterAborts(rc)
                      THEN /\ Leave(RuntimeError, st.inp, result,
                                    Logged([start EXCEPT !.failed = TRUE],
                                           cwd1, st.inp))
                           /\ UNCHANGED <<result, products, aggs>>
                      ELSE /\ result' =
                                [kind |-> "list",
                                 runtime |-> Insert(result.runtime, i, rc),
                                 outputs |-> Accumulate(result.outputs, out, i)]
                           /\ products' = PutProduct(cwd1, out)
                           /\ start' = Logged([start EXCEPT !.failed =
                                                   @ \/ rc # 0], cwd1, st.inp)
                           /\ idx' = i + 1
                           /\ cwd' = cwd1
                           /\ UNCHANGED <<raised, pc, endinputs, aggs, prev, runs>>
                           /\ UNCHANGED <<updatehash, execute, hashvalue, old_cwd,
                                          itervals, notlist>>
              ELSE /\ result' = [result EXCEPT !.outputs =
                                   Accumulate(@, aggregate_outputs(oscwd'), i)]
                   /\ aggs' = aggs + 1
                   /\ idx' = i + 1
                   /\ cwd' = cwd1
                   /\ UNCHANGED <<raised, pc, endinputs, products, calls, start,
                                  prev, runs>>
                   /\ UNCHANGED <<updatehash, execute, hashvalue, old_cwd,
                                  itervals, notlist>>
    /\ UNCHANGED config
    /\ UNCHANGED <<markers, writable>>

\* the record rec when _run_interface(execute=True) has returned to run():
\* the adapter calls for the hash of the run are complete
Completed(rec) ==
    [rec EXCEPT !.okhere = IF rec.failed THEN @ ELSE @ \cup {hashvalue}]

\* lines 300-304 left out: the field keeps the value of the last pass
Restored_not(f) == inputs[f]

\* lines 300-304: the value of an iteration field after the loop
Restored(f) ==
    IF ~InSeq(f, iterfield) THEN inputs[f]
    ELSE IF notlist[f] THEN Scalar(itervals[f][Len(itervals[f])])
    ELSE List(itervals[f])

\* lines 319-320: if cwd: os.chdir(old_cwd)
LeaveDir == IF cwd # NoLoc THEN old_cwd ELSE oscwd

\* lines 299-304 and 319-320: the loop is over; restore the inputs and the
\* current directory.  Back in run(), the executing branch goes on at
\* line 190 and the other branches return the result.
IterRestore ==
    /\ pc = "iter"
    /\ idx >= Passes(itervals, iterfield)
    /\ inputs' = [f \in Fields |-> Restored(f)]
    /\ oscwd' = LeaveDir
    /\ IF disk_based /\ execute
       THEN /\ pc' = "post"
            /\ start' = Completed(start)
            /\ UNCHANGED <<updatehash, execute, hashvalue, cwd, old_cwd,
                           itervals, notlist, idx>>
            /\ UNCHANGED <<runs, raised, endinputs, prev>>
       ELSE Leave(NoError, inputs', result, start)
    /\ UNCHANGED <<config, result>>
    /\ UNCHANGED <<markers, files, products, dirs, writable>>
    /\ UNCHANGED <<calls, aggs>>

\* lines 306-320, no iterfield: one adapter call, or one collection
Single ==
    /\ pc = "single"
    /\ IF execute
       THEN \E rc \in Returncodes :
            LET res == [kind |-> "single", runtime |-> <<rc>>,
                        outputs |-> IF rc = 0 THEN AdapterOut(inputs)
                                    ELSE NoOutputs]
                rec == Logged([start EXCEPT !.failed = rc # 0], cwd, inputs)
            IN  /\ calls' = calls + 1
                /\ result' = res
                /\ products' = IF rc = 0 THEN PutProduct(cwd, AdapterOut(inputs))
                               ELSE products
                /\ IF rc # 0
                   THEN /\ Leave(RuntimeError, inputs, res, rec)
                        /\ UNCHANGED oscwd
                   ELSE /\ oscwd' = LeaveDir
                        /\ IF disk_based
                           THEN /\ pc' = "post"
                                /\ start' = Completed(rec)
                                /\ UNCHANGED <<updatehash, execute, hashvalue, cwd,
                                               old_cwd, itervals, notlist, idx>>
                                /\ UNCHANGED <<runs, raised, endinputs, prev>>
                           ELSE Leave(NoError, inputs, res, rec)
                /\ UNCHANGED aggs
       ELSE LET res == [kind |-> "collected", runtime |-> <<>>,
                        outputs |-> aggregate_outputs(oscwd)]
            IN  /\ result' = res
                /\ aggs' = aggs + 1
                /\ oscwd' = LeaveDir
                /\ Leave(NoError, inputs, res, start)
                /\ UNCHANGED <<products, calls>>
    /\ UNCHANGED <<config, inputs>>
    /\ UNCHANGED <<markers, files, dirs, writable>>

\* lines 195-199: the return code of the run
RECURSIVE MaxCode(_, _)
MaxCode(rt, acc) ==
    IF rt = <<>> THEN acc ELSE MaxCode(Tail(rt), Max(Head(rt), acc))

returncode(res) == IF res.kind = "list" THEN MaxCode(res.runtime, 0)
                   ELSE res.runtime[1]

\* line 200: the hash file is written when the return code is 0
SaveAfter(rc) == rc = 0

\* lines 190-206 and 229: back in run() after an execution
PostRun ==
    /\ pc = "post"
    /\ IF SaveAfter(returncode(result))
       THEN \E out \in SaveOutcomes(writable, serializable) :
            /\ markers' = save_hashfile(markers, hashvalue, out)
            /\ Leave(IF out = "IOError" THEN IOError ELSE NoError,
                     inputs, result, start)
       ELSE /\ Leave(IF result.kind = "list" THEN AttributeError
                     ELSE StandardError, inputs, result, start)
            /\ UNCHANGED markers
    /\ UNCHANGED node
    /\ UNCHANGED <<files, products, dirs, oscwd, writable>>
    /\ UNCHANGED <<calls, aggs>>

Next ==
    \/ SetInput
    \/ Run
    \/ CleanDir
    \/ StageInputs
    \/ RestageInputs
    \/ EnterInterface
    \/ IterStep
    \/ IterRestore
    \/ Single
    \/ PostRun

Spec == Init /\ [][Next]_vars

\* A disk based node whose directory may not be writable and whose inputs
\* may hold a value json cannot serialize (both fixed for the behaviour)
InitWrite ==
    /\ disk_based = TRUE
    /\ ctor = Made(disk_based)
    /\ overwrite = FALSE
    /\ iterfield \in {<<>>, <<"frac">>}
    /\ input_info = <<>>
    /\ serializable \in BOOLEAN
    /\ inputs \in [Fields -> FracVals(iterfield) \cup InfileVals(iterfield)]
    /\ inputs["frac"] \in FracVals(iterfield)
    /\ inputs["infile"] \in InfileVals(iterfield)
    /\ result = NoResult
    /\ markers = {}
    /\ files = SrcFiles
    /\ products = <<>>
    /\ dirs = {}
    /\ oscwd = Home
    /\ writable \in BOOLEAN
    /\ pc = "idle"
    /\ updatehash = FALSE
    /\ execute = FALSE
    /\ hashvalue = get_bunch_hash(inputs)
    /\ cwd = NoLoc
    /\ old_cwd = Home
    /\ itervals = NoIter
    /\ notlist = NoFlag
    /\ idx = 0
    /\ runs = 0
    /\ calls = 0
    /\ aggs = 0
    /\ raised = NoError
    /\ endinputs = inputs
    /\ start = NoStart
    /\ prev = NoPrev

SpecWrite == InitWrite /\ [][Next]_vars

\* A disk based node whose interface declares infile as a file field, with
\* policy copy or move
InitStage ==
    /\ disk_based = TRUE
    /\ ctor = Made(disk_based)
    /\ overwrite \in BOOLEAN
    /\ iterfield \in {<<>>, <<"infile">>}
    /\ input_info \in InfoOpts \ {<<>>}
    /\ serializable = TRUE
    /\ inputs \in [Fields -> FracVals(iterfield) \cup InfileVals(iterfield)]
    /\ inputs["frac"] \in FracVals(iterfield)
    /\ inputs["infile"] \in InfileVals(iterfield)
    /\ result = NoResult
    /\ markers = {}
    /\ files = SrcFiles
    /\ products = <<>>
    /\ dirs = {}
    /\ oscwd = Home
    /\ writable = TRUE
    /\ pc = "idle"
    /\ updatehash = FALSE
    /\ execute = FALSE
    /\ hashvalue = get_bunch_hash(inputs)
    /\ cwd = NoLoc
    /\ old_cwd = Home
    /\ itervals = NoIter
    /\ notlist = NoFlag
    /\ idx = 0
    /\ runs = 0
    /\ calls = 0
    /\ aggs = 0
    /\ raised = NoError
    /\ endinputs = inputs
    /\ start = NoStart
    /\ prev = NoPrev

\* between runs the caller (an upstream node that ran again) writes a source
\* file anew that a run had moved away
PutFile ==
    /\ pc = "idle"
    /\ runs < MaxRuns
    /\ \E g \in SrcFiles \ files : files' = files \cup {g}
    /\ UNCHANGED <<node, local, hist>>
    /\ UNCHANGED <<markers, products, dirs, oscwd, writable>>

\* node.overwrite = v (set_input, line 122), between runs
SetOverwrite ==
    /\ pc = "idle"
    /\ runs < MaxRuns
    /\ disk_based
    /\ overwrite' = ~overwrite
    /\ UNCHANGED <<ctor, disk_based, iterfield, input_info, serializable,
                   inputs, result>>
    /\ UNCHANGED <<disk, local, hist>>

NextStage == PutFile \/ SetOverwrite \/ Next

\* lines 76-89 without the test of base_directory
InitError_nobase(args) ==
    IF ~args.interface THEN Exception ELSE NoError

\* __init__, lines 76-89: the error the constructor raises for its arguments
InitError(args) ==
    IF ~args.interface THEN Exception
    ELSE IF ~args.diskbased /\ args.base_directory THEN ValueError
    ELSE NoError

\* The constructor has been called with some arguments and has not yet run
InitNew ==
    /\ ctor \in CtorArgs
    /\ disk_based = FALSE
    /\ overwrite = FALSE
    /\ iterfield \in {<<>>, <<"frac">>}
    /\ input_info = <<>>
    /\ serializable = TRUE
    /\ inputs \in [Fields -> FracVals(iterfield) \cup InfileVals(iterfield)]
    /\ inputs["frac"] \in FracVals(iterfield)
    /\ inputs["infile"] \in InfileVals(iterfield)
    /\ result = NoResult
    /\ markers = {}
    /\ files = SrcFiles
    /\ products = <<>>
    /\ dirs = {}
    /\ oscwd = Home
    /\ writable = TRUE
    /\ pc = "new"
    /\ updatehash = FALSE
    /\ execute = FALSE
    /\ hashvalue = get_bunch_hash(inputs)
    /\ cwd = NoLoc
    /\ old_cwd = Home
    /\ itervals = NoIter
    /\ notlist = NoFlag
    /\ idx = 0
    /\ runs = 0
    /\ calls = 0
    /\ aggs = 0
    /\ raised = NoError
    /\ endinputs = inputs
    /\ start = NoStart
    /\ prev = NoPrev

\* __init__, lines 70-100: raise for bad arguments ("noinstance": the caller
\* holds no node), else set disk_based and, for a disk based node, overwrite
Construct ==
    /\ pc = "new"
    /\ raised' = InitError(ctor)
    /\ IF InitError(ctor) # NoError
       THEN /\ pc' = "noinstance"
            /\ UNCHANGED <<disk_based, overwrite>>
       ELSE /\ pc' = "idle"
            /\ disk_based' = ctor.diskbased
            /\ overwrite' \in (IF ctor.diskbased THEN BOOLEAN ELSE {FALSE})
    /\ UNCHANGED <<ctor, iterfield, input_info, serializable, inputs, result>>
    /\ UNCHANGED disk
    /\ UNCHANGED <<updatehash, execute, hashvalue, cwd, old_cwd, itervals,
                   notlist, idx>>
    /\ UNCHANGED <<runs, calls, aggs, endinputs, start, prev>>

NextNew == Construct \/ Next

SpecNew == InitNew /\ [][NextNew]_vars

\* A node with no iterfield or with two, frac and infile in either order;
\* each holds a scalar or a list, so the two may differ in length
InitIter ==
    /\ disk_based \in BOOLEAN
    /\ ctor = Made(disk_based)
    /\ overwrite = FALSE
    /\ iterfield \in {<<>>, <<"frac", "infile">>, <<"infile", "frac">>}
    /\ input_info = <<>>
    /\ serializable = TRUE
    /\ inputs \in [Fields -> FracVals(iterfield) \cup InfileVals(iterfield)]
    /\ inputs["frac"] \in FracVals(iterfield)
    /\ inputs["infile"] \in InfileVals(iterfield)
    /\ result = NoResult
    /\ markers = {}
    /\ files = SrcFiles
    /\ products = <<>>
    /\ dirs = {}
    /\ oscwd = Home
    /\ writable = TRUE
    /\ pc = "idle"
    /\ updatehash = FALSE
    /\ execute = FALSE
    /\ hashvalue = get_bunch_hash(inputs)
    /\ cwd = NoLoc
    /\ old_cwd = Home
    /\ itervals = NoIter
    /\ notlist = NoFlag
    /\ idx = 0
    /\ runs = 0
    /\ calls = 0
    /\ aggs = 0
    /\ raised = NoError
    /\ endinputs = inputs
    /\ start = NoStart
    /\ prev = NoPrev

SpecIter == InitIter /\ [][Next]_vars

SpecStage == InitStage /\ [][NextStage]_vars

\* ------------------------------------------------------------------ claims

\* the current/last run is a run of a disk based node without updatehash
PlainRun == disk_based /\ runs > 0 /\ ~updatehash

\* C1: idempotence.  Disk based, overwrite = False: when the run before
\* executed the adapter and returned normally and the inputs are as that run
\* left them, the run takes the skip path, makes no adapter call, and
\* returns, without an exception, the outputs the run before returned.
C1_Idempotent ==
    (PlainRun /\ ~overwrite /\ prev.ok /\ start.same)
        => /\ start.path = "skip"
           /\ calls = 0
           /\ (pc = "idle" => raised = NoError /\ aggs > 0 /\ start.sameout)

\* C1 witness: a second run that collected staged-file outputs
C1_Witness ==
    /\ pc = "idle" /\ PlainRun /\ ~overwrite /\ prev.ok /\ start.same
    /\ input_info # <<>> /\ inputs["infile"] # None
    /\ inputs["infile"].items[1].loc = output_directory
    /\ result.outputs["X"] # <<>>
    /\ calls = 0 /\ start.sameout

\* C2 as claimed: after any runs, a run without updatehash (overwrite =
\* False) that finds exactly one input changed to a different value has a
\* different hash and executes the adapter.
C2_AnyChangeReexecutes ==
    (PlainRun /\ ~overwrite /\ start.onefield)
        => (start.newhash /\ start.path = "exec")

\* C2 amended: overwrite = False, no updatehash.  When the hash of the inputs
\* differs from the hash of the inputs the run before left (a plain value
\* changed, or a file replaced by one of other content) and no updatehash run
\* has added a hash file since the directory was last cleaned, the run
\* executes the adapter again; so it does for inputs that were executed
\* successfully earlier in the directory.
C2_NewHashReexecutes ==
    (PlainRun /\ ~overwrite /\ start.newhash /\ ~start.updbefore)
        => /\ start.path = "exec"
           /\ (pc = "idle" => calls > 0)

\* C2 witness: the inputs were changed back to inputs that had been executed
\* successfully, and the adapter ran again
C2_Witness ==
    /\ pc = "idle" /\ PlainRun /\ ~overwrite
    /\ start.newhash /\ ~start.updbefore /\ start.onefield /\ start.back
    /\ start.path = "exec" /\ calls > 0

\* the last run has ended and one of its adapter calls returned a nonzero code
FailedRun == pc = "idle" /\ runs > 0 /\ disk_based /\ start.failed

\* C3: a disk based run whose adapter call returned a nonzero code (the one
\* call, or the call of any iteration) ends with an exception, and the
\* directory then holds no hash file for the hash of the run's inputs.
C3_FailureLeavesNoMarker ==
    FailedRun => (raised # NoError /\ hashvalue \notin markers)

\* C3 witness: the second iteration failed in a run over a directory that
\* held the hash file of these inputs when the run began
C3_Witness ==
    /\ FailedRun /\ start.marker /\ iterfield # <<>> /\ calls = 2
    /\ raised # NoError /\ hashvalue \notin markers

\* C4: the exception raised for a nonzero adapter code carries the name of
\* the node, the inputs and the captured stderr.
C4_ErrorCarriesNameInputsStderr ==
    FailedRun => (raised.name /\ raised.inputs /\ raised.stderr)

\* C5: whenever run() has been left, by return or by exception, the current
\* directory of the process is the one it was when run() was called.
C5_DirectoryRestored ==
    (pc = "idle" /\ runs > 0) => oscwd = start.oscwd

\* C6: in a run with an iterfield, the first adapter call that returns a
\* nonzero code ends the run with an exception: the loop is left at once, so
\* no adapter call follows for a later index.
C6_FirstFailureAborts ==
    (iterfield # <<>> /\ runs > 0 /\ start.failed)
        => /\ pc = "idle"
           /\ raised # NoError
           /\ Len(result.runtime) = calls - 1

\* C6 witness: the first of several iterations failed and was the only call
C6_Witness ==
    /\ iterfield # <<>> /\ runs > 0 /\ start.failed /\ pc = "idle"
    /\ start.n > 1 /\ calls = 1

\* C7: after a run with an iterfield that returned normally, every output
\* key of the result holds a list with one element per iteration value.
C7_OutputListsComplete ==
    (pc = "idle" /\ runs > 0 /\ iterfield # <<>> /\ raised = NoError)
        => \A k \in OutKeys :
              result.outputs[k] # <<>> => Len(result.outputs[k]) = start.n

\* C8: a run with updatehash on a disk based node makes no adapter call,
\* has the hash file of the inputs in the directory from its first step on,
\* and returns without an exception.
C8_UpdateHashOnlyMarks ==
    (disk_based /\ runs > 0 /\ updatehash)
        => /\ calls = 0
           /\ hashvalue \in markers
           /\ raised = NoError
           /\ (pc = "idle" => aggs > 0)

\* C8 witness: updatehash with overwrite set and no hash file before
C8_Witness ==
    /\ pc = "idle" /\ disk_based /\ runs > 0 /\ updatehash
    /\ overwrite /\ ~start.marker
    /\ calls = 0 /\ hashvalue \in markers

\* C9: a disk based run without updatehash executes the adapter if and only
\* if overwrite is set or the hash file of the inputs did not exist when the
\* run began.
C9_CacheDecision ==
    PlainRun
        => /\ (start.path = "exec") <=> (overwrite \/ ~start.marker)
           /\ (pc = "idle" => ((calls > 0) <=> (overwrite \/ ~start.marker)))

\* C9 witness: overwrite set, hash file present, adapter executed again
C9_Witness ==
    /\ pc = "idle" /\ PlainRun /\ overwrite /\ start.marker /\ calls > 0

\* the run in progress found the hash file of its inputs and is collecting
Skipping == PlainRun /\ pc # "idle" /\ start.path = "skip"

\* C10: on the skip path no step of the run calls the adapter, writes or
\* removes a hash file, or removes outputs or staged files held in the
\* directory; the outputs are taken from aggregate_outputs only.
C10_SkipPathFrame ==
    [][Skipping =>
          /\ calls' = calls
          /\ markers' = markers
          /\ \A d \in DOMAIN products :
                d \in DOMAIN products' /\ products'[d] = products[d]
          /\ \A f \in files : InTree(f.loc) =>
                \E g \in files' : InTree(g.loc) /\ g.id = f.id
          /\ (pc' = "idle" => aggs' > 0 /\ result'.kind # "single")]_vars

\* C10 witness: a skip run has returned outputs kept in the directory
C10_Witness ==
    /\ pc = "idle" /\ PlainRun /\ start.path = "skip"
    /\ aggs > 0 /\ calls = 0 /\ markers # {}
    /\ result.outputs["X"] # <<>>

\* C11: a node that is not disk based never has a directory or a hash file
\* and never collects outputs: each of its runs goes straight to the adapter
\* (line 228) and, when it returns normally, has called the adapter once, or
\* once per value of the first iterfield, whatever the runs before it did.
C11_NonDiskAlwaysExecutes ==
    (~disk_based /\ runs > 0)
        => /\ start.path = "direct"
           /\ markers = {} /\ dirs = {} /\ products = <<>>
           /\ aggs = 0
           /\ (pc = "idle" => calls >= 1)
           /\ (pc = "idle" /\ raised = NoError
                  => calls = IF iterfield = <<>> THEN 1 ELSE start.n)

\* C11 witness: the run before succeeded with the same inputs, and this run
\* called the adapter for both values again
C11_Witness ==
    /\ pc = "idle" /\ ~disk_based /\ runs > 1 /\ prev.ok /\ start.same
    /\ raised = NoError /\ iterfield # <<>> /\ calls = 2
    /\ markers = {} /\ dirs = {}

\* the current/last run is a fresh execution of a disk based node with an
\* iterfield
FreshIterRun ==
    disk_based /\ runs > 0 /\ iterfield # <<>> /\ start.path = "exec"

\* C12: in a fresh disk based run with an iterfield, the j-th adapter call
\* (j = 1, 2, ...) is made with cwd <field0>_<j-1> and with every iterfield
\* set to the (j-1)-th of its values as they were when run() began, staged
\* into that subdirectory; a scalar counts as a sequence of one value.  A run
\* that returns normally has made exactly as many calls as the first
\* iterfield had values.
C12_IterationOrder ==
    FreshIterRun
        => /\ Len(start.log) = calls
           /\ \A j \in 1..Len(start.log) :
                 LET d == [kind |-> "sub", idx |-> j - 1]
                 IN  /\ start.log[j].cwd = d
                     /\ \A f \in Fields : InSeq(f, iterfield) =>
                           LET it == start.inputs[f].items[j]
                           IN  start.log[j].inputs[f] =
                                  Scalar(IF it.loc = NoLoc THEN it
                                         ELSE [loc |-> d, id |-> it.id])
           /\ (pc = "idle" /\ raised = NoError
                  => calls = Len(start.inputs[iterfield[1]].items))

\* C12 witness: two files were iterated over; the second call ran in
\* infile_1 with the second file staged there
C12_Witness ==
    /\ pc = "idle" /\ FreshIterRun /\ raised = NoError
    /\ iterfield = <<"infile">> /\ calls = 2
    /\ start.inputs["infile"] = List(FileSeq(2))
    /\ start.log[2].cwd = SubDir(1)
    /\ start.log[2].inputs["infile"] = Scalar(File(SubDir(1), "b"))

\* field f is declared by get_input_info() of a disk based node, so that
\* run() stages its files into the node's directory
Declared(f) ==
    disk_based /\ \E j \in 1..Len(input_info) : input_info[j].key = f

\* the last run had an iterfield and went through all passes of the loop
IterRunDone ==
    pc = "idle" /\ runs > 0 /\ iterfield # <<>> /\ raised = NoError

AdapterSucceeded ==
    pc = "idle" /\ runs > 0 /\ disk_based /\ ~start.failed

\* C14: whether or not the hash file can be written and the inputs can be
\* serialized, a run whose adapter calls all returned 0 (or that made none)
\* ends without an exception: a failure of _save_hashfile is logged, never
\* raised.
C14_MarkerWriteNeverRaised ==
    AdapterSucceeded => raised = NoError

\* the step about to be taken is one pass of the loop of line 253
LoopPass == pc = "iter" /\ idx < Len(itervals[iterfield[1]])

\* C15: staging and the declared policy, for every declared field of a disk
\* based node.  Main staging (lines 182-188) and skip-path staging (lines
\* 210-225) point every file of the field at its name in the node's
\* directory, where the file then is; per-iteration staging (lines 261-266)
\* does so with the subdirectory of the pass.  With policy copy no step of a
\* run removes a file outside the node's directory, and main and skip-path
\* staging leave the file they stage from where it is.  With policy move
\* the path a file was staged from is gone after the step (a file found in
\* the directory on the skip path is not staged, only pointed at).
C15_CopyPolicy ==
    [][\A k \in 1..Len(input_info) :
          LET info == input_info[k]
              f    == info.key
              its  == inputs[f].items
          IN  /\ (disk_based /\ info.copy)
                    => \A g \in files : ~InTree(g.loc) => g \in files'
              /\ (disk_based /\ pc \in {"stage", "restage"})
                    => \A j \in 1..Len(its) :
                          LET it  == its[j]
                              new == [loc |-> output_directory, id |-> it.id]
                              staged == pc = "stage" \/ new \notin files
                          IN  /\ inputs'[f].items[j] = new
                              /\ new \in files'
                              /\ (info.copy /\ it \in files) => it \in files'
                              /\ (~info.copy /\ staged /\ it # new)
                                    => it \notin files'
              /\ (disk_based /\ LoopPass /\ InSeq(f, iterfield))
                    => LET it  == itervals[f][idx + 1]
                           new == [loc |-> [kind |-> "sub", idx |-> idx],
                                   id |-> it.id]
                       IN  /\ inputs'[f] = Scalar(new)
                           /\ new \in files'
                           /\ ~info.copy => it \notin files']_vars

\* C15 witness: policy move, two files iterated over in a fresh run: both
\* source paths are gone, the files are in the subdirectories and the input
\* names the node's directory
C15_Witness ==
    /\ pc = "idle" /\ disk_based /\ runs = 1 /\ raised = NoError
    /\ input_info = <<[key |-> "infile", copy |-> FALSE]>>
    /\ iterfield = <<"infile">> /\ calls = 2
    /\ start.inputs["infile"] = List(FileSeq(2))
    /\ SrcFiles \cap files = {}
    /\ File(SubDir(0), "a") \in files /\ File(SubDir(1), "b") \in files
    /\ endinputs["infile"].items[1] = File(output_directory, "a")

\* C16: the constructor raises at once when no interface is given
\* (Exception) and when a base directory is given for a node that is not
\* disk based (ValueError), and then there is no node: nothing is ever run.
\* With an interface, a disk based node (with or without base directory)
\* and a node that is not disk based and has no base directory are made
\* without error, disk based as asked.
C16_ConstructionErrors ==
    pc # "new"
        => /\ ~ctor.interface
                 => pc = "noinstance" /\ raised = Exception /\ runs = 0
           /\ (ctor.interface /\ ~ctor.diskbased /\ ctor.base_directory)
                 => pc = "noinstance" /\ raised = ValueError /\ runs = 0
           /\ (ctor.interface /\ (ctor.diskbased \/ ~ctor.base_directory))
                 => /\ pc # "noinstance"
                    /\ disk_based = ctor.diskbased
                    /\ raised \notin {Exception, ValueError}

\* C16 witness: an interface and a base directory, but not disk based
C16_Witness ==
    /\ pc = "noinstance" /\ raised = ValueError
    /\ ctor.interface /\ ~ctor.diskbased /\ ctor.base_directory

\* C17: when run() has been left, by return (after an execution or on the
\* skip path) or by an exception (also one raised in the middle of the
\* loop), the hash of the inputs is the hash they had when run() began.
C17_HashUnchangedByRun ==
    (pc = "idle" /\ runs > 0)
        => get_bunch_hash(endinputs) = get_bunch_hash(start.inputs)

\* C18: every hash file in the directory of a disk based node names a hash
\* for which, since the directory was last cleaned, a run made all its
\* adapter calls with return code 0 or a run was called with updatehash.
C18_MarkerSound ==
    disk_based
        => \A h \in markers : h \in start.okhere \/ h \in start.updhere

\* C18 witness: two hash files, one written after an execution, one on
\* request only, after a run that collected outputs
C18_Witness ==
    /\ pc = "idle" /\ disk_based /\ runs > 1 /\ aggs > 0
    /\ \E h \in markers : h \in start.okhere /\ h \notin start.updhere
    /\ \E h \in markers : h \in start.updhere /\ h \notin start.okhere

\* the current/last run is a fresh execution: disk based, line 178 taken
FreshRun == disk_based /\ runs > 0 /\ start.path = "exec"

\* every file of a declared field is in the node's directory and the input
\* names it there
AllStaged ==
    \A k \in 1..Len(input_info) :
       \A j \in 1..Len(inputs[input_info[k].key].items) :
          LET it == inputs[input_info[k].key].items[j]
          IN  it.loc = output_directory /\ it \in files

\* C19: the order of a fresh execution is clean, stage, execute, write the
\* hash file.  Before the directory is cleaned nothing is staged or called;
\* when the files are staged the directory has been emptied of hash files,
\* files and outputs; the adapter is first called with the declared files
\* staged; no hash file is in the directory from the cleaning until the
\* adapter calls have returned 0; and when the run has returned normally
\* the hash file of its hash is the only one in the directory.
C19_CleanStageExecuteMark ==
    FreshRun
        => /\ pc = "clean" => calls = 0 /\ inputs = start.inputs
           /\ pc = "stage"
                 => /\ calls = 0 /\ inputs = start.inputs
                    /\ markers = {} /\ products = <<>>
                    /\ \A g \in files : ~InTree(g.loc)
           /\ pc = "enter" => calls = 0 /\ AllStaged
           /\ pc \in {"stage", "enter", "iter", "single", "post"}
                 => markers = {}
           /\ pc = "post" => calls > 0 /\ ~start.failed
           /\ pc = "idle"
                 => IF raised = NoError
                    THEN calls > 0 /\ ~start.failed /\ markers = {hashvalue}
                    ELSE markers = {}

\* C19 witness: the run before left the hash file of other inputs; this run
\* cleaned it away, staged its file, executed and left its own hash file
C19_Witness ==
    /\ pc = "idle" /\ FreshRun /\ ~overwrite /\ ~updatehash
    /\ prev.ok /\ start.newhash /\ raised = NoError
    /\ input_info # <<>> /\ AllStaged /\ inputs["infile"] # None
    /\ calls > 0 /\ markers = {hashvalue}

\* C20: the re-staging step of the skip path (lines 210-225).  Every file of
\* a declared, non-empty field is pointed at its name in the node's
\* directory, element by element (a list stays a list), and the file is
\* there afterwards.  A file that was there already is not staged again:
\* the path the input named is left as it was, and if all were there the
\* files are unchanged.  Only files that were missing are new in the
\* directory.  Fields that are not declared keep their values.
C20_SkipPathRestaging ==
    [][(disk_based /\ pc = "restage")
          => /\ \A f \in Fields : ~Declared(f) => inputs'[f] = inputs[f]
             /\ \A k \in 1..Len(input_info) :
                   LET f   == input_info[k].key
                       its == inputs[f].items
                       New(j) == [loc |-> output_directory, id |-> its[j].id]
                   IN  /\ inputs'[f].islist = inputs[f].islist
                       /\ Len(inputs'[f].items) = Len(its)
                       /\ \A j \in 1..Len(its) :
                             /\ inputs'[f].items[j] = New(j)
                             /\ New(j) \in files'
                             /\ (New(j) \in files /\ its[j] # New(j))
                                   => (its[j] \in files' <=> its[j] \in files)
                       /\ \A g \in files' \ files :
                             \E j \in 1..Len(its) : g = New(j)
                       /\ (\A j \in 1..Len(its) : New(j) \in files)
                             => files' = files]_vars

\* C20 witness: policy move, skip path: the file was already in the node's
\* directory, so the source the caller had written anew was left where it
\* was and the input points at the staged file
C20_Witness ==
    /\ pc = "idle" /\ disk_based /\ runs > 1 /\ ~updatehash
    /\ start.path = "skip" /\ iterfield = <<>>
    /\ input_info = <<[key |-> "infile", copy |-> FALSE]>>
    /\ start.inputs["infile"] = Scalar(File(SrcDir, "a"))
    /\ endinputs["infile"] = Scalar(File(output_directory, "a"))
    /\ File(SrcDir, "a") \in files /\ File(output_directory, "a") \in files

\* the current/last run executes the adapter for a node with two iterfields
TwoFieldRun ==
    runs > 0 /\ Len(iterfield) = 2 /\ start.path \in {"exec", "direct"}

\* the number of values of the k-th iterfield when run() began
LenAtStart(k) == Len(start.inputs[iterfield[k]].items)

\* C21: two iterfields, executing run.  The loop makes as many passes as
\* the first field has values, whatever the length of the second.  If the
\* second is shorter, nothing is raised before the loop: the adapter is
\* called for every index the second field has, then IndexError is raised
\* at the first missing index (unless an adapter call failed before), and
\* the directory of a disk based node holds no hash file.  If the second is
\* longer, a run whose calls all return 0 returns normally after one call
\* per value of the first field, each with the value of the second field at
\* the same index; the later values of the second field are never used.
C21_UnequalLengths ==
    TwoFieldRun
        => /\ calls <= LenAtStart(1)
           /\ raised = IndexError
                 => /\ LenAtStart(2) < LenAtStart(1)
                    /\ calls = LenAtStart(2) /\ calls >= 1
                    /\ markers = {}
           /\ (pc = "idle" /\ LenAtStart(2) < LenAtStart(1))
                 => /\ raised \in {IndexError, RuntimeError}
                    /\ (~start.failed => raised = IndexError)
                    /\ markers = {}
           /\ (pc = "idle" /\ LenAtStart(2) >= LenAtStart(1)
                 /\ ~start.failed)
                 => /\ raised = NoError
                    /\ calls = LenAtStart(1)
                    /\ Len(start.log) = LenAtStart(1)
                    /\ \A j \in 1..Len(start.log) :
                          start.log[j].inputs[iterfield[2]].items[1].id =
                             start.inputs[iterfield[2]].items[j].id
                    /\ (disk_based => markers = {hashvalue})

\* C21 witness: disk based, the first field has two values and the second
\* one: the adapter ran for index 0, IndexError came at index 1, no hash file
C21_Witness ==
    /\ pc = "idle" /\ TwoFieldRun /\ disk_based
    /\ LenAtStart(1) = 2 /\ LenAtStart(2) = 1
    /\ raised = IndexError /\ calls = 1 /\ markers = {}

\* the values of key k in the outputs of the adapter calls of log, in order
RECURSIVE Produced(_, _)
Produced(log, k) ==
    IF log = <<>> THEN <<>>
    ELSE AdapterOut(Head(log).inputs)[k] \o Produced(Tail(log), k)

\* the values of key k kept in the subdirectories of passes i .. n-1
RECURSIVE Kept(_, _, _)
Kept(i, n, k) ==
    IF i >= n THEN <<>>
    ELSE aggregate_outputs([kind |-> "sub", idx |-> i])[k] \o Kept(i + 1, n, k)

\* what the last run alone produced (executing) or collected (skip path)
OwnOutputs(k) ==
    IF start.path \in {"exec", "direct"} THEN Produced(start.log, k)
    ELSE IF iterfield = <<>> THEN aggregate_outputs(output_directory)[k]
    ELSE Kept(0, start.n, k)

\* the last run has returned normally
Returned == pc = "idle" /\ runs > 0 /\ raised = NoError

\* C22: after a run that returned normally the result holds what that run
\* produced or collected and nothing of the runs before; with an iterfield
\* every output key of the result has one value per pass of the loop.
C22_ResultReplaced ==
    Returned
        => \A k \in OutKeys :
              /\ result.outputs[k] = OwnOutputs(k)
              /\ (iterfield # <<>> /\ result.outputs[k] # <<>>)
                    => Len(result.outputs[k]) = start.n

====
